---- MODULE Spec2Model ----
(***************************************************************************)
(* Calibration loop of the FEBio material-parameter optimizer.             *)
(*                                                                         *)
(*   optimize_mult.py : Runner (cache / dedupe / early stop), main         *)
(*   objective.py     : objective_coeffs, objective_c1                     *)
(*   run_febio.py, edit_feb.py, febio_xml.py, parsing.py : the stages an   *)
(*                      evaluation drives                                  *)
(*                                                                         *)
(* Real numbers are fixed-point integers: the real v is the integer        *)
(* v * Unit, with Unit one decimal digit finer than ROUND_DIGITS, so that  *)
(* roundf really rounds.  A magnitude coefficient c is kept as the record  *)
(* [sgn, lg]: c = 10^(lg/Unit) when sgn = 1 and c = 0 when sgn = 0.        *)
(* Scores are integers (percent).  What the solver, the template and the   *)
(* output files do is the environment: each evaluation draws one element   *)
(* of Envs.                                                                *)
(***************************************************************************)
EXTENDS Integers, Sequences, FiniteSets, TLC

VARIABLES
    pc,            \* main(): "idle" | "running" | "stopped" | "finished" | "crashed"
    session,       \* number of runs of main() started so far
    FIXED_PAIRS,   \* user setting of the current run: pair index -> [c, m]
    RUN_LOG,       \* the persisted log file: [exists, header, rows]
    opt_pairs,     \* Runner.opt_pairs
    logged,        \* Runner.logged : key -> err
    cache,         \* Runner.cache  : key -> err
    eval_count,    \* Runner.eval_count
    best_err,      \* Runner.best_err
    best_coeffs,   \* Runner.best_coeffs
    last,          \* how the most recent Runner.__call__ ended
    evals,         \* the invocations of objective_coeffs by the Runner of this run, in order
    rows0,         \* number of rows RUN_LOG held when the current run started
    origin,        \* key -> the full coefficient dict of the evaluation behind its row
    runDirs,       \* run directories that exist on disk
    dirCount,      \* run directories this process has created (mkdtemp names are fresh)
    obj,           \* the most recent evaluation of an objective function
    CALL_COUNT,    \* objective.CALL_COUNT
    LOG_CSV,       \* objective.LOG_CSV : [exists, header, rows]
    scalar_pc,     \* optimize.py: "running" | "crashed"
    applied,       \* the most recent call of a helper function on its own: [fn, args, out]
    inflight,      \* solver processes that are running
    blocked        \* the call of Runner that waits in objective_coeffs for the solver

vars == <<pc, session, FIXED_PAIRS, RUN_LOG, opt_pairs, logged, cache,
          eval_count, best_err, best_coeffs, last, evals, rows0, origin,
          runDirs, dirCount, obj, CALL_COUNT, LOG_CSV, scalar_pc, applied, inflight, blocked>>

runnerVars == <<pc, session, FIXED_PAIRS, RUN_LOG, opt_pairs, logged, cache,
                eval_count, best_err, best_coeffs, last, evals, rows0, origin>>

scalarVars == <<CALL_COUNT, LOG_CSV, scalar_pc>>

stageVars == <<applied, inflight, blocked>>

-----------------------------------------------------------------------------
(* USER SETTINGS of optimize_mult.py *)

N_ACTIVE_PAIRS == 2

ROUND_DIGITS == 4

Unit == 10 ^ (ROUND_DIGITS + 1)

LOG10_C_BOUNDS == <<-12 * Unit, 0>>

M_BOUNDS == <<Unit \div 10, 25 * Unit>>

DEFAULT_LOG10_C0 == -5 * Unit

DEFAULT_M0 == Unit

THREADS == 6

FEBIO_TIMEOUT == 270

\* The source sets 15; the model runs the same code with a cap of 2 so that
\* the cap is reached within the bounds.
MAX_EVALS == 2

TARGET_ERR == 5

PENALTY == 1000000000

\* float("inf"): above every score, the penalty included
Inf == 2 * PENALTY

-----------------------------------------------------------------------------
(* Bounds of the model *)

\* runs of main() that follow one another on the same RUN_LOG
MaxSessions == 2

\* rows RUN_LOG may hold: as many as one run may add
MaxLogRows == MAX_EVALS

\* evaluations made by calling the objective functions on their own
MaxDirectCalls == 3

\* lines of a solver output file
MaxLines == 4

\* points of a series handed to resample_to_n_points, and their values 1..MaxValue
MaxPoints == 5

MaxValue == 5

\* the target length n handed to resample_to_n_points: 0..MaxTarget
MaxTarget == 4

\* the time budget of the solver, in ticks of the clock
TimeoutTicks == 2

\* the highest step index of a simulated series
MaxSimStep == 3

\* N_ACTIVE_PAIRS of the earlier configurations that left a log file: 1..MaxPairsBefore
MaxPairsBefore == 3

-----------------------------------------------------------------------------
(* Values *)

Pow10(l) == [sgn |-> 1, lg |-> l]

CZero == [sgn |-> 0, lg |-> 0]

EmptyMap == [k \in {} |-> 0]

\* A coefficient dict maps the names c1, m1, c2, ... (Name("c", 1), ...) to values
Name(letter, i) == <<letter, i>>

EmptyCoeffs == [n \in {} |-> 0]

None == [isNone |-> TRUE, v |-> EmptyCoeffs]

Some(cf) == [isNone |-> FALSE, v |-> cf]

Abs(n) == IF n < 0 THEN -n ELSE n

Store(map, key, err) == [k \in DOMAIN map \cup {key} |-> IF k = key THEN err ELSE map[k]]

-----------------------------------------------------------------------------
(* optimize_mult.py : INTERNAL HELPERS *)

clamp_nothing(v, lo, hi) == v

clamp(v, lo, hi) ==
    LET inner == IF hi < v THEN hi ELSE v      \* min(hi, v)
    IN  IF inner < lo THEN lo ELSE inner        \* max(lo, ...)

\* round(float(x), ROUND_DIGITS): nearest multiple of 10^-ROUND_DIGITS, an
\* exact tie going to the even multiple.
roundf(x) ==
    LET g == Unit \div (10 ^ ROUND_DIGITS)
        q == x \div g
        r == x % g
    IN  IF 2 * r < g THEN q * g
        ELSE IF 2 * r > g THEN (q + 1) * g
        ELSE IF q % 2 = 0 THEN q * g ELSE (q + 1) * g

active_pair_indices(fixed) ==
    SelectSeq([i \in 1..N_ACTIVE_PAIRS |-> i], LAMBDA i : i \notin DOMAIN fixed)

\* x0 of build_x0_and_bounds: [DEFAULT_LOG10_C0, DEFAULT_M0] per optimized pair
build_x0(opt) ==
    [k \in 1..(2 * Len(opt)) |-> IF k % 2 = 1 THEN DEFAULT_LOG10_C0 ELSE DEFAULT_M0]

x_to_coeffs(x, opt, fixed) ==
    LET pos(i) == CHOOSE k \in 1..Len(opt) : opt[k] = i
        isOpt(i) == \E k \in 1..Len(opt) : opt[k] = i
        pairs == DOMAIN fixed \cup {opt[k] : k \in 1..Len(opt)}
    IN  [n \in {Name("c", i) : i \in pairs} \cup {Name("m", i) : i \in pairs} |->
            LET i == n[2]
            IN  IF isOpt(i)
                THEN IF n[1] = "c"
                     THEN Pow10(clamp(x[2 * pos(i) - 1], LOG10_C_BOUNDS[1], LOG10_C_BOUNDS[2]))
                     ELSE clamp(x[2 * pos(i)], M_BOUNDS[1], M_BOUNDS[2])
                ELSE IF n[1] = "c" THEN fixed[i].c ELSE fixed[i].m]

\* coeffs.get(f"c{i}", 0.0) and coeffs.get(f"m{i}", 0.0)
GetC(coeffs, i) == IF Name("c", i) \in DOMAIN coeffs THEN coeffs[Name("c", i)] ELSE CZero

GetM(coeffs, i) == IF Name("m", i) \in DOMAIN coeffs THEN coeffs[Name("m", i)] ELSE 0

\* np.log10(ci) if ci > 0 else -999.0
Log10OrSentinel(ci) == IF ci.sgn = 1 THEN ci.lg ELSE -999 * Unit

coeffs_to_key(coeffs) ==
    [k \in 1..(2 * N_ACTIVE_PAIRS) |->
        IF k % 2 = 1
        THEN roundf(Log10OrSentinel(GetC(coeffs, (k + 1) \div 2)))
        ELSE roundf(GetM(coeffs, k \div 2))]

-----------------------------------------------------------------------------
(* optimize_mult.py : the persisted log *)

Col(name, i) == <<name, i>>

\* The header ensure_log_header writes when N_ACTIVE_PAIRS is n
LogHeaderFor(n) ==
    <<Col("timestamp", 0)>>
    \o [k \in 1..(3 * n) |->
            LET i == (k + 2) \div 3
            IN  IF k % 3 = 1 THEN Col("log10_c", i)
                ELSE IF k % 3 = 2 THEN Col("c", i) ELSE Col("m", i)]
    \o <<Col("error_percent", 0)>>

RunLogHeader == LogHeaderFor(N_ACTIVE_PAIRS)

NoFile == [exists |-> FALSE, header |-> <<>>, rows |-> <<>>]

ensure_log_header(file) ==
    IF file.exists THEN file
    ELSE [exists |-> TRUE, header |-> RunLogHeader, rows |-> <<>>]

\* The row append_log_row writes when N_ACTIVE_PAIRS is n
LogRowFor(n, coeffs, err) ==
    <<"now">>
    \o [k \in 1..(3 * n) |->
            LET i == (k + 2) \div 3
            IN  IF k % 3 = 1 THEN Log10OrSentinel(GetC(coeffs, i))
                ELSE IF k % 3 = 2 THEN GetC(coeffs, i) ELSE GetM(coeffs, i)]
    \o <<err>>

LogRow(coeffs, err) == LogRowFor(N_ACTIVE_PAIRS, coeffs, err)

rewrite_log_row(file, coeffs, err) ==
    [file EXCEPT !.exists = TRUE, !.rows = <<LogRow(coeffs, err)>>]

\* RUN_LOG.open("a"): the row goes after what the file holds
append_log_row(file, coeffs, err) ==
    [file EXCEPT !.exists = TRUE, !.rows = Append(@, LogRow(coeffs, err))]

\* csv.DictReader: the value of a row under a column name
HasCol(header, col) == \E k \in 1..Len(header) : header[k] = col

Field(header, row, col) == row[CHOOSE k \in 1..Len(header) : header[k] = col]

needed_cols ==
    {Col("timestamp", 0), Col("error_percent", 0)}
    \cup {Col("c", i) : i \in 1..N_ACTIVE_PAIRS}
    \cup {Col("m", i) : i \in 1..N_ACTIVE_PAIRS}

\* Lines 170-178: a row is skipped when float() fails on one of the fields it
\* reads; a row shorter than the header has None under the columns it lacks.
RowReadable(header, row) ==
    \A col \in needed_cols \ {Col("timestamp", 0)} :
        (CHOOSE k \in 1..Len(header) : header[k] = col) <= Len(row)

RowCoeffs(header, row) ==
    [n \in {Name("c", i) : i \in 1..N_ACTIVE_PAIRS} \cup {Name("m", i) : i \in 1..N_ACTIVE_PAIRS} |->
        Field(header, row, n)]

RECURSIVE LoadRows(_, _, _)
LoadRows(header, rows, acc) ==
    IF rows = <<>> THEN acc
    ELSE LET row == Head(rows)
             nxt == IF RowReadable(header, row)
                    THEN Store(acc, coeffs_to_key(RowCoeffs(header, row)),
                               Field(header, row, Col("error_percent", 0)))
                    ELSE acc
         IN  LoadRows(header, Tail(rows), nxt)

load_nothing(file) == EmptyMap

load_without_penalties(file) ==
    IF ~file.exists THEN EmptyMap
    ELSE IF \E col \in needed_cols : ~HasCol(file.header, col) THEN EmptyMap
    ELSE LoadRows(file.header,
                  SelectSeq(file.rows,
                            LAMBDA row : \/ ~RowReadable(file.header, row)
                                         \/ Field(file.header, row, Col("error_percent", 0)) < 10 ^ 8),
                  EmptyMap)

load_logged_results(file) ==
    IF ~file.exists THEN EmptyMap
    ELSE IF \E col \in needed_cols : ~HasCol(file.header, col) THEN EmptyMap
    ELSE LoadRows(file.header, file.rows, EmptyMap)

-----------------------------------------------------------------------------
(* The environment of one evaluation: what the template, the solver and    *)
(* its output files do.  Only the first field that departs from the        *)
(* default matters to the code, so each element departs in one field.      *)

\* Scores the scoring path produces (finite percentages): one at the target,
\* two above it.
Scores == {TARGET_ERR, 50, 70}

EnvOk ==
    [inject     |-> "ok",     \* write_coeffs: "ok" or the KeyError it raises
     redirect   |-> "ok",     \* update_log_data_file: "ok" or its ValueError
     invoke     |-> "exit",   \* run_febio: "exit", "TimeoutExpired", "OSError"
     returncode |-> 0,        \* result.returncode
     artifact   |-> TRUE,     \* reaction_file.exists()
     extract    |-> "ok",     \* parse_febio_log_by_step: "ok" or its ValueError
     nsim       |-> 2,        \* len(sim_use): steps with Step > 0
     nexp       |-> 2,        \* len(EXP_DATA)
     score      |-> 50]       \* 100 * nrmse(sim_use, exp_use)

Envs ==
    {[EnvOk EXCEPT !.inject = "KeyError"],
     [EnvOk EXCEPT !.redirect = "ValueError"],
     [EnvOk EXCEPT !.invoke = "TimeoutExpired"],
     [EnvOk EXCEPT !.invoke = "OSError"],
     [EnvOk EXCEPT !.returncode = 1],
     [EnvOk EXCEPT !.artifact = FALSE],
     [EnvOk EXCEPT !.extract = "ValueError"],
     [EnvOk EXCEPT !.nsim = 1],
     [EnvOk EXCEPT !.nexp = 1]}
    \cup {[EnvOk EXCEPT !.score = s] : s \in Scores}

-----------------------------------------------------------------------------
(* run_febio.py, parsing.py : the stages as the objective sees them *)

\* run_febio: the process runs with OMP_NUM_THREADS = threads under the
\* time budget; subprocess.run raises TimeoutExpired or another error, or
\* returns the exit status.
run_febio(timeout, threads, env) ==
    [budget  |-> [timeout |-> timeout, OMP_NUM_THREADS |-> threads],
     outcome |-> env.invoke,
     returncode |-> env.returncode]

\* resample_to_n_points(df, n): the guards of lines 27-33
ResampleRaises(m, n) == n < 2 \/ m < 2

Returned(value, stages, solver) ==
    [kind |-> "return", value |-> value, exc |-> "none", stages |-> stages, solver |-> solver]

Raised(exc, stages, solver) ==
    [kind |-> "raise", value |-> 0, exc |-> exc, stages |-> stages, solver |-> solver]

NoSolver == [timeout |-> 0, OMP_NUM_THREADS |-> 0]

-----------------------------------------------------------------------------
(* parsing.py : parse_febio_log_by_step                                    *)
(*                                                                         *)
(* A line of the solver's output is [star, nums]: star is "Step" when the  *)
(* stripped line starts with "*Step", "other" when it starts with "*"      *)
(* otherwise and "none" when it does not; nums is what _num_re finds in    *)
(* it.  Numbers in the files are integers here.  A Value is the exact      *)
(* fraction [num, den].                                                    *)

Line(star, nums) == [star |-> star, nums |-> nums]

NoStep == [isNone |-> TRUE, v |-> 0]

RECURSIVE SumSeq(_)
SumSeq(vals) == IF vals = <<>> THEN 0 ELSE Head(vals) + SumSeq(Tail(vals))

Frac(num, den) == [num |-> num, den |-> den]

\* ids_keep is None, or the set of ids to keep
KeepAll == [isNone |-> TRUE, ids |-> {}]

KeepIds(ids) == [isNone |-> FALSE, ids |-> ids]

KeptAlways(keep, id) == TRUE

\* Line 89
Kept(keep, id) == keep.isNone \/ id \in keep.ids

\* Lines 64-90: the loop over the lines; step_values maps a step to the
\* values kept under it, in file order.
RECURSIVE ParseLines(_, _, _, _)
ParseLines(lines, keep, current_step, step_values) ==
    IF lines = <<>> THEN step_values
    ELSE LET s == Head(lines)
             rest == Tail(lines)
         IN  IF s.star = "Step"
             THEN IF s.nums # <<>>
                  THEN LET st == s.nums[Len(s.nums)]
                       IN  ParseLines(rest, keep, [isNone |-> FALSE, v |-> st],
                                      IF st \in DOMAIN step_values THEN step_values
                                      ELSE Store(step_values, st, <<>>))
                  ELSE ParseLines(rest, keep, current_step, step_values)
             ELSE IF current_step.isNone THEN ParseLines(rest, keep, current_step, step_values)
             ELSE IF s.star # "none" THEN ParseLines(rest, keep, current_step, step_values)
             ELSE IF Len(s.nums) >= 2 /\ Kept(keep, s.nums[1])
                  THEN ParseLines(rest, keep, current_step,
                                  [step_values EXCEPT ![current_step.v] = Append(@, s.nums[2])])
                  ELSE ParseLines(rest, keep, current_step, step_values)

\* sorted(step_values.keys())
RECURSIVE Sorted(_)
Sorted(S) ==
    IF S = {} THEN <<>>
    ELSE LET least == CHOOSE a \in S : \A b \in S : a <= b
         IN  <<least>> \o Sorted(S \ {least})

\* Lines 96-107: the value of one step; NaN when nothing was kept under it
NaN == [num |-> 0, den |-> 0]

AggregateZeroForEmpty(vals, agg) ==
    IF agg = "sum" THEN Frac(SumSeq(vals), 1)
    ELSE Frac(SumSeq(vals), IF vals = <<>> THEN 1 ELSE Len(vals))

Aggregate(vals, agg) ==
    IF vals = <<>> THEN NaN
    ELSE IF agg = "sum" THEN Frac(SumSeq(vals), 1)
    ELSE Frac(SumSeq(vals), Len(vals))

\* Lines 92-115
parse_febio_log_by_step(lines, ids_keep, agg) ==
    LET step_values == ParseLines(lines, ids_keep, NoStep, EmptyMap)
        steps == Sorted(DOMAIN step_values)
        df == [k \in 1..Len(steps) |->
                 [Step |-> steps[k], Value |-> Aggregate(step_values[steps[k]], agg)]]
        dropped == SelectSeq(df, LAMBDA r : r.Value # NaN)
    IN  IF agg \notin {"sum", "mean"} /\ \E st \in DOMAIN step_values : step_values[st] # <<>>
        THEN [kind |-> "raise", exc |-> "ValueError", df |-> <<>>]
        ELSE IF dropped = <<>>
        THEN [kind |-> "raise", exc |-> "ValueError", df |-> <<>>]
        ELSE [kind |-> "return", exc |-> "none", df |-> dropped]

-----------------------------------------------------------------------------
(* parsing.py : resample_to_n_points, nrmse *)

InterpLeft(y, n, k) ==
    LET m == Len(y)
        j == (k * (m - 1)) \div (n - 1)
    IN  Frac(y[j + 1] * (n - 1), n - 1)

\* np.interp(x_new[k], x_old, y) for x_old = linspace(0, 1, m) and x_new =
\* linspace(0, 1, n), k = 0..n-1: with j the last index whose x_old[j] =
\* j/(m-1) is <= k/(n-1), the value is y[j] + slope * (x_new[k] - x_old[j]),
\* and y[m-1] at the right end.  Kept exact, over the denominator n - 1.
Interp(y, n, k) ==
    LET m == Len(y)
        j == CHOOSE i \in 0..(m - 1) :
                 /\ i * (n - 1) <= k * (m - 1)
                 /\ \A h \in 0..(m - 1) : h * (n - 1) <= k * (m - 1) => h <= i
    IN  IF j = m - 1 THEN Frac(y[m] * (n - 1), n - 1)
        ELSE Frac(y[j + 1] * (n - 1) + (y[j + 2] - y[j + 1]) * (k * (m - 1) - j * (n - 1)),
                  n - 1)

\* y is df["Value"], a sequence indexed from 1
resample_to_n_points(y, n) ==
    IF n < 2 THEN [kind |-> "raise", exc |-> "ValueError", df |-> <<>>]
    ELSE IF Len(y) < 2 THEN [kind |-> "raise", exc |-> "ValueError", df |-> <<>>]
    ELSE [kind |-> "return", exc |-> "none",
          df |-> [k \in 1..n |-> [Step |-> k, Value |-> Interp(y, n, k - 1)]]]

RECURSIVE SumSquares(_, _, _)
SumSquares(sim, exp, k) ==
    IF k = 0 THEN 0
    ELSE LET a == sim[IF Len(sim) = 1 THEN 1 ELSE k]
             b == exp[IF Len(exp) = 1 THEN 1 ELSE k]
             d == a.num * b.den - b.num * a.den
         IN  d * d + SumSquares(sim, exp, k - 1)

\* nrmse(sim_vals, exp_vals) over two sequences of fractions, each sequence
\* over one denominator.  sim - exp needs equal lengths (or a length of 1,
\* which numpy broadcasts) and raises ValueError otherwise.  The result is
\* kept exact as its square sq_num / sq_den; peak is max(abs(exp)) times the
\* denominator of exp, and floor tells that eps replaced a zero peak: the
\* result is then sq_num / (sq_den * eps^2).
nrmse(sim, exp) ==
    IF Len(sim) # Len(exp) /\ Len(sim) # 1 /\ Len(exp) # 1
    THEN [kind |-> "raise", exc |-> "ValueError", sq_num |-> 0, sq_den |-> 1, peak |-> 0,
          floor |-> FALSE]
    ELSE LET n == IF Len(sim) > Len(exp) THEN Len(sim) ELSE Len(exp)
             ds == sim[1].den
             de == exp[1].den
             peak == CHOOSE v \in {Abs(exp[k].num) : k \in 1..Len(exp)} :
                         \A k \in 1..Len(exp) : Abs(exp[k].num) <= v
         IN  [kind |-> "return", exc |-> "none",
              sq_num |-> SumSquares(sim, exp, n),
              sq_den |-> IF peak = 0 THEN n * ds * ds * de * de ELSE n * ds * ds * peak * peak,
              peak |-> peak,
              floor |-> peak = 0]

-----------------------------------------------------------------------------
(* objective.py *)

LOG_HEADER == <<Col("c", 1), Col("m", 1), Col("error_percent", 0)>>

MAX_CALLS == 30

\* optimize.py, options of minimize_scalar: "maxiter": 40
MAXITER == 40

C1_TIMEOUT == 120

ArtifactCheckSkipped(env) == FALSE

\* Line 225: if not reaction_file.exists()
ArtifactMissing(env) == ~env.artifact

\* The body of objective_coeffs between mkdtemp and the finally clause.
objective_coeffs(coeffs, timeout, threads, debug, env) ==
    LET run == run_febio(timeout, 6, env)
    IN  IF env.inject # "ok" THEN Raised(env.inject, <<"inject">>, NoSolver)
        ELSE IF env.redirect # "ok" THEN Raised(env.redirect, <<"inject", "redirect">>, NoSolver)
        ELSE IF run.outcome = "TimeoutExpired"
            THEN Returned(PENALTY, <<"inject", "redirect", "invoke">>, run.budget)
        ELSE IF run.outcome # "exit"
            THEN Returned(PENALTY, <<"inject", "redirect", "invoke">>, run.budget)
        ELSE IF run.returncode # 0
            THEN Returned(PENALTY, <<"inject", "redirect", "invoke">>, run.budget)
        ELSE IF ArtifactMissing(env)
            THEN Returned(PENALTY, <<"inject", "redirect", "invoke">>, run.budget)
        ELSE IF env.extract # "ok"
            THEN Raised(env.extract, <<"inject", "redirect", "invoke", "extract">>, run.budget)
        ELSE IF ResampleRaises(env.nexp, env.nsim)
            THEN Raised("ValueError", <<"inject", "redirect", "invoke", "extract", "resample">>,
                        run.budget)
        ELSE Returned(env.score,
                      <<"inject", "redirect", "invoke", "extract", "resample", "score">>, run.budget)

Values(df) == [k \in 1..Len(df) |-> df[k].Value]

MetricSwapped(sim_vals, exp_vals) == nrmse(exp_vals, sim_vals)

\* Line 237: nrmse(sim_use["Value"], exp_use["Value"])
Metric(sim_vals, exp_vals) == nrmse(sim_vals, exp_vals)

\* Lines 234-238 of objective_coeffs (138-164 of objective_c1): sim is the
\* frame parse_febio_log_by_step returned, exp_y the Value column of
\* EXP_DATA.  err is 100.0 * nrmse, kept as its square.
Scoring(sim, exp_y) ==
    LET sim_use == SelectSeq(sim, LAMBDA r : r.Step > 0)
        exp_use == resample_to_n_points(exp_y, Len(sim_use))
        metric == Metric(Values(sim_use), Values(exp_use.df))
        failed(exc) == [kind |-> "raise", exc |-> exc, sim_use |-> sim_use, exp_use |-> <<>>,
                        metric |-> <<>>, err |-> <<>>]
    IN  IF exp_use.kind = "raise" THEN failed(exp_use.exc)
        ELSE IF metric.kind = "raise" THEN failed(metric.exc)
        ELSE [kind |-> "return", exc |-> "none", sim_use |-> sim_use, exp_use |-> exp_use.df,
              metric |-> metric,
              err |-> [sq_num |-> 100 * 100 * metric.sq_num, sq_den |-> metric.sq_den,
                       floor |-> metric.floor]]

KeepsAlways(debug) == TRUE

\* finally: the run folder is kept only under debug; shutil.rmtree removes
\* the folder (ignore_errors hides a removal the file system refuses)
KeepsRunDir(debug) == debug

\* The body of objective_c1 between mkdtemp and the finally clause; logged is
\* whether a row [float(c1), err] is appended to LOG_CSV.
objective_c1(c1, env) ==
    LET run == run_febio(C1_TIMEOUT, 4, env)
        res == IF env.inject # "ok" THEN Raised(env.inject, <<"inject">>, NoSolver)
               ELSE IF env.redirect # "ok"
                   THEN Raised(env.redirect, <<"inject", "redirect">>, NoSolver)
               ELSE IF run.outcome = "TimeoutExpired"
                   THEN Returned(PENALTY, <<"inject", "redirect", "invoke">>, run.budget)
               ELSE IF run.outcome # "exit"
                   THEN Raised(run.outcome, <<"inject", "redirect", "invoke">>, run.budget)
               ELSE IF run.returncode # 0
                   THEN Returned(PENALTY, <<"inject", "redirect", "invoke">>, run.budget)
               ELSE IF ~env.artifact
                   THEN Raised("FileNotFoundError", <<"inject", "redirect", "invoke">>, run.budget)
               ELSE IF env.extract # "ok"
                   THEN Raised(env.extract, <<"inject", "redirect", "invoke", "extract">>, run.budget)
               ELSE IF ResampleRaises(env.nexp, env.nsim)
                   THEN Raised("ValueError",
                               <<"inject", "redirect", "invoke", "extract", "resample">>, run.budget)
               ELSE Returned(env.score,
                             <<"inject", "redirect", "invoke", "extract", "resample", "score">>,
                             run.budget)
    IN  [res |-> res,
         row |-> IF res.kind = "return" THEN <<<<c1, res.value>>>> ELSE <<>>]

\* objective_c1's finally clause removes the run folder unconditionally
C1KeepsRunDir == FALSE

\* tempfile.mkdtemp(prefix=f"febio_{run_id}_"): a name no other directory has,
\* here the process and the number of the directory within it
FreshDir == <<session, dirCount + 1>>

\* The keyword arguments of a call
Asked(timeout, threads) == [timeout |-> timeout, threads |-> threads]

NoObj ==
    [fn |-> "none", debug |-> FALSE, env |-> EnvOk, coeffs |-> EmptyCoeffs, run_dir |-> <<0, 0>>,
     asked |-> Asked(0, 0), res |-> Returned(0, <<>>, NoSolver)]

\* One evaluation around the body: mkdtemp makes a fresh directory, the
\* finally clause removes it unless it is kept.
Evaluate(fn, coeffs, asked, debug, env, res, keep) ==
    /\ dirCount' = dirCount + 1
    /\ runDirs' = IF keep THEN runDirs \cup {FreshDir} ELSE runDirs
    /\ obj' = [fn |-> fn, debug |-> debug, env |-> env, coeffs |-> coeffs,
               run_dir |-> FreshDir, asked |-> asked, res |-> res]

-----------------------------------------------------------------------------
(* Settings and inputs the runs are taken over *)

NoFixed == [i \in {} |-> [c |-> CZero, m |-> 0]]

\* FIXED_PAIRS as the runs of one calibration campaign set it: nothing
\* frozen, pair 1 frozen (the example of the source), a pair beyond
\* N_ACTIVE_PAIRS frozen at one of two values, every pair frozen.
FixedConfigs ==
    {NoFixed,
     1 :> [c |-> Pow10(-477469), m |-> Unit],
     3 :> [c |-> Pow10(-3 * Unit), m |-> Unit],
     3 :> [c |-> Pow10(-2 * Unit), m |-> 2 * Unit],
     (1 :> [c |-> Pow10(-477469), m |-> Unit]) @@ (2 :> [c |-> Pow10(-6 * Unit), m |-> 2 * Unit])}

\* Vectors the search driver may hand in, written for two optimized pairs
\* (a run with one optimized pair takes the first two components): the
\* start point x0, a point that rounds to x0, a point more than the
\* rounding precision away from x0, a point outside both bounds and the
\* bounds themselves.
BaseInputs ==
    {<<DEFAULT_LOG10_C0, DEFAULT_M0, DEFAULT_LOG10_C0, DEFAULT_M0>>,
     <<DEFAULT_LOG10_C0 - 4, DEFAULT_M0 + 3, DEFAULT_LOG10_C0, DEFAULT_M0>>,
     <<DEFAULT_LOG10_C0 + 15, DEFAULT_M0, DEFAULT_LOG10_C0, DEFAULT_M0>>,
     <<LOG10_C_BOUNDS[1] - Unit, 5, DEFAULT_LOG10_C0, DEFAULT_M0>>,
     <<LOG10_C_BOUNDS[1], M_BOUNDS[1], DEFAULT_LOG10_C0, DEFAULT_M0>>}

XInputs(opt) == {SubSeq(v, 1, 2 * Len(opt)) : v \in BaseInputs}

NoApplied == [fn |-> "none", args |-> <<>>, out |-> <<>>]

NoCall ==
    [x |-> <<>>, coeffs |-> EmptyCoeffs, key |-> <<>>, run_dir |-> <<0, 0>>, ended |-> "none"]

NoLast ==
    [x |-> <<>>, coeffs |-> EmptyCoeffs, key |-> <<>>, kind |-> "none", value |-> 0,
     src |-> "none"]

-----------------------------------------------------------------------------
(* optimize_mult.py : Runner and main *)

Init ==
    /\ pc = "idle"
    /\ session = 0
    /\ FIXED_PAIRS = NoFixed
    /\ RUN_LOG = NoFile
    /\ opt_pairs = <<>>
    /\ logged = EmptyMap
    /\ cache = EmptyMap
    /\ eval_count = 0
    /\ best_err = Inf
    /\ best_coeffs = None
    /\ last = NoLast
    /\ evals = <<>>
    /\ rows0 = 0
    /\ origin = EmptyMap
    /\ runDirs = {}
    /\ dirCount = 0
    /\ obj = NoObj
    /\ CALL_COUNT = 0
    /\ LOG_CSV = [exists |-> TRUE, header |-> LOG_HEADER, rows |-> <<>>]
    /\ scalar_pc = "running"
    /\ applied = NoApplied
    /\ inflight = {}
    /\ blocked = NoCall

\* main() up to the construction of the Runner (lines 262-277), one run of
\* the program after the other.
StartSession(fixed) ==
    /\ pc \notin {"running", "evaluating"}
    /\ session < MaxSessions
    /\ session' = session + 1
    /\ FIXED_PAIRS' = fixed
    /\ RUN_LOG' = ensure_log_header(RUN_LOG)
    /\ opt_pairs' = active_pair_indices(fixed)
    /\ pc' = IF Len(opt_pairs') = 0 THEN "crashed" ELSE "running"
    /\ logged' = IF Len(opt_pairs') = 0 THEN EmptyMap ELSE load_logged_results(RUN_LOG')
    /\ cache' = EmptyMap
    /\ eval_count' = 0
    /\ best_err' = Inf
    /\ best_coeffs' = None
    /\ last' = NoLast
    /\ rows0' = Len(RUN_LOG'.rows)
    /\ evals' = <<>>
    /\ obj' = NoObj
    /\ dirCount' = 0
    /\ UNCHANGED <<origin, runDirs, scalarVars, stageVars>>

LookupAlwaysMiss(key) == "miss"

LookupCacheOnly(key) == IF key \in DOMAIN cache THEN "cache" ELSE "miss"

\* Lines 213-218: where the answer to a key comes from
Lookup(key) ==
    IF key \in DOMAIN cache THEN "cache"
    ELSE IF key \in DOMAIN logged THEN "log"
    ELSE "miss"

BetterAlways(err) == TRUE

\* Lines 248-251
BetterThanBest(err) == err < best_err

StopAfterStrict(err, count) == err < TARGET_ERR \/ count >= MAX_EVALS

StopAfterLate(err, count) == err <= TARGET_ERR \/ count > MAX_EVALS

\* Lines 253-257
StopAfter(err, count) == err <= TARGET_ERR \/ count >= MAX_EVALS

Answer(x, coeffs, key, kind, value, src) ==
    [x |-> x, coeffs |-> coeffs, key |-> key, kind |-> kind, value |-> value, src |-> src]

\* Lines 235-259: what Runner.__call__ does with what objective_coeffs gave
\* for its eval_count'-th evaluation, made in run_dir
RunnerRecord(x, coeffs, key, res, run_dir) ==
    LET err == res.value
    IN  /\ evals' = Append(evals, [coeffs |-> coeffs, key |-> key, kind |-> res.kind,
                                   value |-> err, run_dir |-> run_dir])
        /\ IF res.kind = "raise"
           THEN /\ pc' = "crashed"
                /\ last' = Answer(x, coeffs, key, "raise", 0, "eval")
                /\ UNCHANGED <<RUN_LOG, logged, cache, best_err, best_coeffs, origin>>
           ELSE /\ RUN_LOG' = append_log_row(RUN_LOG, coeffs, err)
                /\ origin' = Store(origin, key, coeffs)
                /\ logged' = Store(logged, key, err)
                /\ cache' = Store(cache, key, err)
                /\ best_err' = IF BetterThanBest(err) THEN err ELSE best_err
                /\ best_coeffs' = IF BetterThanBest(err) THEN Some(coeffs) ELSE best_coeffs
                /\ IF StopAfter(err, eval_count')
                   THEN pc' = "stopped" /\ last' = Answer(x, coeffs, key, "stop", err, "eval")
                   ELSE pc' = "running" /\ last' = Answer(x, coeffs, key, "return", err, "eval")

ReturnReusedAsBest(coeffs, err) ==
    /\ best_err' = IF BetterThanBest(err) THEN err ELSE best_err
    /\ best_coeffs' = IF BetterThanBest(err) THEN Some(coeffs) ELSE best_coeffs
    /\ UNCHANGED <<pc, eval_count>>

\* Lines 215 and 222: the reused score is returned before the bookkeeping
\* of lines 224-257
ReturnReused(coeffs, err) == UNCHANGED <<pc, eval_count, best_err, best_coeffs>>

RunnerCall(x) ==
    /\ pc = "running"
    /\ LET coeffs == x_to_coeffs(x, opt_pairs, FIXED_PAIRS)
           key == coeffs_to_key(coeffs)
       IN  IF Lookup(key) = "cache"
           THEN /\ last' = Answer(x, coeffs, key, "return", cache[key], "cache")
                /\ ReturnReused(coeffs, cache[key])
                /\ UNCHANGED <<session, FIXED_PAIRS, RUN_LOG, opt_pairs, logged, cache,
                               evals, rows0, origin,
                               runDirs, dirCount, obj, scalarVars, stageVars>>
           ELSE IF Lookup(key) = "log"
           THEN /\ cache' = Store(cache, key, logged[key])
                /\ last' = Answer(x, coeffs, key, "return", logged[key], "log")
                /\ ReturnReused(coeffs, logged[key])
                /\ UNCHANGED <<session, FIXED_PAIRS, RUN_LOG, opt_pairs, logged,
                               evals, rows0, origin,
                               runDirs, dirCount, obj, scalarVars, stageVars>>
           ELSE \E env \in Envs :
                Len(RUN_LOG.rows) < MaxLogRows /\
                LET res == objective_coeffs(coeffs, FEBIO_TIMEOUT, THREADS, FALSE, env)
                IN  /\ eval_count' = eval_count + 1
                    /\ Evaluate("objective_coeffs", coeffs, Asked(FEBIO_TIMEOUT, THREADS),
                                FALSE, env, res, KeepsRunDir(FALSE))
                    /\ RunnerRecord(x, coeffs, key, res, FreshDir)
                    /\ UNCHANGED <<session, FIXED_PAIRS, opt_pairs, rows0, scalarVars,
                                   stageVars>>

Call == \E x \in XInputs(opt_pairs) : RunnerCall(x)

\* minimize() returns normally (line 287)
Finish ==
    /\ pc = "running"
    /\ last.kind = "return"
    /\ pc' = "finished"
    /\ UNCHANGED <<session, FIXED_PAIRS, RUN_LOG, opt_pairs, logged, cache, eval_count,
                   best_err, best_coeffs, last, evals, rows0, origin, runDirs, dirCount,
                   obj, scalarVars, stageVars>>

\* Lines 293-301: what main reports once the search is over
MainReport ==
    IF ~best_coeffs.isNone
    THEN [found |-> TRUE, coeffs |-> best_coeffs.v, error |-> best_err]
    ELSE [found |-> FALSE, coeffs |-> EmptyCoeffs, error |-> Inf]

Start == \E fixed \in FixedConfigs : StartSession(fixed)

Next == Start \/ Call \/ Finish

Spec == Init /\ [][Next]_vars

-----------------------------------------------------------------------------
(* Runs that find at the path of RUN_LOG a file an earlier configuration   *)
(* of the program left there.                                              *)

\* The coefficients of x0 for pairs 1..n
DefaultCoeffs(n) ==
    [nm \in {Name("c", i) : i \in 1..n} \cup {Name("m", i) : i \in 1..n} |->
        IF nm[1] = "c" THEN Pow10(DEFAULT_LOG10_C0) ELSE DEFAULT_M0]

\* The file main() leaves after one evaluation of x0 with N_ACTIVE_PAIRS = n
\* and no fixed pair: ensure_log_header, then one append_log_row.
LogWrittenWith(n, err) ==
    [exists |-> TRUE, header |-> LogHeaderFor(n),
     rows |-> <<LogRowFor(n, DefaultCoeffs(n), err)>>]

LeftLogs == {LogWrittenWith(n, 50) : n \in 1..MaxPairsBefore}

InitLog ==
    /\ pc = "idle"
    /\ session = 0
    /\ FIXED_PAIRS = NoFixed
    /\ RUN_LOG \in LeftLogs
    /\ opt_pairs = <<>>
    /\ logged = EmptyMap
    /\ cache = EmptyMap
    /\ eval_count = 0
    /\ best_err = Inf
    /\ best_coeffs = None
    /\ last = NoLast
    /\ evals = <<>>
    /\ rows0 = 0
    /\ origin = EmptyMap
    /\ runDirs = {}
    /\ dirCount = 0
    /\ obj = NoObj
    /\ CALL_COUNT = 0
    /\ LOG_CSV = [exists |-> TRUE, header |-> LOG_HEADER, rows |-> <<>>]
    /\ scalar_pc = "running"
    /\ applied = NoApplied
    /\ inflight = {}
    /\ blocked = NoCall

SpecLog == InitLog /\ [][Next]_vars

-----------------------------------------------------------------------------
(* The objective functions called on their own: objective_coeffs with its  *)
(* keyword arguments, and optimize.py driving objective_c1.                *)

DirectCoeffs ==
    {x_to_coeffs(x, <<1, 2>>, NoFixed) :
        x \in {build_x0(<<1, 2>>), <<LOG10_C_BOUNDS[1], M_BOUNDS[1], DEFAULT_LOG10_C0, DEFAULT_M0>>}}

DirectObjectiveCoeffs(coeffs, timeout, threads, debug, env) ==
    /\ dirCount < MaxDirectCalls
    /\ Evaluate("objective_coeffs", coeffs, Asked(timeout, threads), debug, env,
                objective_coeffs(coeffs, timeout, threads, debug, env), KeepsRunDir(debug))
    /\ UNCHANGED <<runnerVars, scalarVars, stageVars>>

DirectCall ==
    \E coeffs \in DirectCoeffs, timeout \in {C1_TIMEOUT, FEBIO_TIMEOUT}, threads \in {2, THREADS},
       debug \in BOOLEAN, env \in Envs :
        DirectObjectiveCoeffs(coeffs, timeout, threads, debug, env)

\* optimize.py: objective_log_c1(log10_c1) = objective_c1(10 ** log10_c1); an
\* exception leaving objective_c1 ends minimize_scalar and the program.
ScalarEvaluation(log10_c1, env) ==
    /\ scalar_pc = "running"
    /\ LET c1 == Pow10(log10_c1)
           out == objective_c1(c1, env)
       IN  /\ CALL_COUNT' = CALL_COUNT + 1
           /\ Evaluate("objective_c1", Name("c", 1) :> c1, Asked(0, 0), FALSE, env, out.res,
                       C1KeepsRunDir)
           /\ LOG_CSV' = [LOG_CSV EXCEPT !.rows = @ \o out.row]
           /\ scalar_pc' = IF out.res.kind = "raise" THEN "crashed" ELSE "running"
    /\ UNCHANGED <<runnerVars, stageVars>>

ScalarCall(log10_c1, env) ==
    /\ dirCount < MaxDirectCalls
    /\ ScalarEvaluation(log10_c1, env)

Scalar == \E log10_c1 \in {DEFAULT_LOG10_C0, -10 * Unit}, env \in Envs : ScalarCall(log10_c1, env)

NextObjective == DirectCall \/ Scalar

SpecObjective == Init /\ [][NextObjective]_vars

-----------------------------------------------------------------------------
(* One run of optimize.py to its end: minimize_scalar calls the objective  *)
(* until it has converged or has used up the function evaluations its      *)
(* maxiter option allows; when it converges is decided by the scores, that *)
(* is by the solver.  The solver produces a score whenever it runs to its  *)
(* end; the other members of the environment end the program.              *)

OptimizeEnvs ==
    {[EnvOk EXCEPT !.score = 50]} \cup {env \in Envs : objective_c1(Pow10(0), env).res.kind = "raise"}

\* The bounded method evaluates the objective once before its loop and once
\* per iteration, and leaves the loop when the evaluations number maxiter
\* (lines 8-13 of optimize.py).
OptimizeStep(log10_c1, env) ==
    /\ CALL_COUNT < MAXITER
    /\ ScalarEvaluation(log10_c1, env)

Optimize == \E env \in OptimizeEnvs : OptimizeStep(DEFAULT_LOG10_C0, env)

SpecOptimize == Init /\ [][Optimize]_vars

-----------------------------------------------------------------------------
(* One run of main() followed at the grain of the solver process: Runner   *)
(* enters objective_coeffs, subprocess.run starts the solver and waits for *)
(* its exit or for the time budget, and the rest of objective_coeffs and   *)
(* of Runner.__call__ follows.  The clock counts ticks; the time budget is *)
(* TimeoutTicks of them.                                                   *)

WhileSolverRunsFree == "running"

\* subprocess.run returns only once the process has ended: main() is inside
\* Runner.__call__ for as long as the solver runs
WhileSolverRuns == "evaluating"

\* Lines 209-224 of Runner.__call__ and lines 171-198 of objective_coeffs, up
\* to the start of the solver process.  launch: "not launched" when
\* write_coeffs, update_log_data_file or the start of the process raises,
\* "runs" for a process that can exit, "hangs" for one that never does.
BeginEvaluation(x, launch) ==
    /\ pc = "running"
    /\ LET coeffs == x_to_coeffs(x, opt_pairs, FIXED_PAIRS)
           key == coeffs_to_key(coeffs)
       IN  /\ Lookup(key) = "miss"
           /\ Len(RUN_LOG.rows) < MaxLogRows
           /\ eval_count' = eval_count + 1
           /\ dirCount' = dirCount + 1
           /\ runDirs' = runDirs \cup {FreshDir}
           /\ inflight' =
                 IF launch # "not launched"
                 THEN inflight \cup
                        {[run_dir |-> FreshDir, elapsed |-> 0,
                          budget |-> run_febio(FEBIO_TIMEOUT, 6, EnvOk).budget,
                          hangs |-> launch = "hangs"]}
                 ELSE inflight
           /\ blocked' = [x |-> x, coeffs |-> coeffs, key |-> key, run_dir |-> FreshDir,
                          ended |-> IF launch # "not launched" THEN "running"
                                    ELSE "not launched"]
           /\ pc' = WhileSolverRuns
    /\ UNCHANGED <<session, FIXED_PAIRS, RUN_LOG, opt_pairs, logged, cache, best_err,
                   best_coeffs, last, evals, rows0, origin, obj, scalarVars, applied>>

Begin ==
    \E x \in XInputs(opt_pairs), launch \in {"not launched", "runs", "hangs"} :
        BeginEvaluation(x, launch)

ExpiredNever(p) == FALSE

\* subprocess.run(timeout=...): the budget is used up
Expired(p) == p.elapsed >= TimeoutTicks

\* Time passes while the solver runs
Tick ==
    \E p \in inflight :
        /\ p.elapsed < TimeoutTicks
        /\ inflight' = (inflight \ {p}) \cup {[p EXCEPT !.elapsed = @ + 1]}
        /\ UNCHANGED <<runnerVars, runDirs, dirCount, obj, scalarVars, applied, blocked>>

Ended(p, how) == IF blocked.run_dir = p.run_dir THEN [blocked EXCEPT !.ended = how] ELSE blocked

\* The solver process exits by itself within the budget
ProcessExit ==
    \E p \in inflight :
        /\ ~p.hangs
        /\ ~Expired(p)
        /\ inflight' = inflight \ {p}
        /\ blocked' = Ended(p, "exit")
        /\ UNCHANGED <<runnerVars, runDirs, dirCount, obj, scalarVars, applied>>

\* The budget is used up: subprocess.run kills the process and raises
\* TimeoutExpired
Expire ==
    \E p \in inflight :
        /\ Expired(p)
        /\ inflight' = inflight \ {p}
        /\ blocked' = Ended(p, "TimeoutExpired")
        /\ UNCHANGED <<runnerVars, runDirs, dirCount, obj, scalarVars, applied>>

\* What the template, the solver and its output can have done, given how
\* the start and the wait for the process ended
EnvsAfter(ended) ==
    IF ended = "not launched"
    THEN {e \in Envs : e.inject # "ok" \/ e.redirect # "ok" \/ e.invoke = "OSError"}
    ELSE IF ended = "TimeoutExpired"
    THEN {e \in Envs : e.invoke = "TimeoutExpired"}
    ELSE {e \in Envs : e.inject = "ok" /\ e.redirect = "ok" /\ e.invoke = "exit"}

\* objective_coeffs from the return of run_febio (line 198) to its finally
\* clause, then lines 238-259 of Runner.__call__
EndEvaluation(env) ==
    /\ pc = "evaluating"
    /\ blocked.ended \in {"not launched", "exit", "TimeoutExpired"}
    /\ UNCHANGED <<session, FIXED_PAIRS, opt_pairs, rows0, eval_count, dirCount, scalarVars,
                   applied, inflight>>
    /\ LET res == objective_coeffs(blocked.coeffs, FEBIO_TIMEOUT, THREADS, FALSE, env)
       IN  /\ obj' = [fn |-> "objective_coeffs", debug |-> FALSE, env |-> env,
                      coeffs |-> blocked.coeffs, run_dir |-> blocked.run_dir,
                      asked |-> Asked(FEBIO_TIMEOUT, THREADS), res |-> res]
           /\ runDirs' = IF KeepsRunDir(FALSE) THEN runDirs ELSE runDirs \ {blocked.run_dir}
           /\ RunnerRecord(blocked.x, blocked.coeffs, blocked.key, res, blocked.run_dir)
    /\ blocked' = NoCall

End == \E env \in EnvsAfter(blocked.ended) : EndEvaluation(env)

\* A call of Runner answered from the cache or from the log
CallAnswered ==
    \E x \in XInputs(opt_pairs) :
        /\ Lookup(coeffs_to_key(x_to_coeffs(x, opt_pairs, FIXED_PAIRS))) # "miss"
        /\ RunnerCall(x)

\* main() with FIXED_PAIRS as the source sets it: empty
StartAsConfigured == StartSession(NoFixed)

NextSolver ==
    StartAsConfigured \/ CallAnswered \/ Begin \/ Tick \/ ProcessExit \/ Expire \/ End \/ Finish

SpecSolver == Init /\ [][NextSolver]_vars

\* Time passes, subprocess.run enforces its budget, and the interpreter goes
\* on once subprocess.run has returned or raised.
FairSpecSolver ==
    SpecSolver /\ WF_vars(Tick) /\ WF_vars(Expire) /\ WF_vars(End)

-----------------------------------------------------------------------------
(* The helper functions called on their own, each under a specification of *)
(* its own, on inputs drawn from a bounded set.                            *)

\* A component far outside every bound
Far == 1000 * Unit

Log10CInputs ==
    {-Far, LOG10_C_BOUNDS[1] - 1, LOG10_C_BOUNDS[1], DEFAULT_LOG10_C0,
     LOG10_C_BOUNDS[2], LOG10_C_BOUNDS[2] + 1, Far}

MInputs ==
    {-Far, M_BOUNDS[1] - 1, M_BOUNDS[1], DEFAULT_M0, M_BOUNDS[2], M_BOUNDS[2] + 1, Far}

\* Every vector of the layout [log10(c), m, log10(c), m, ...] over these
VectorInputs(opt) ==
    {x \in [1..(2 * Len(opt)) -> Log10CInputs \cup MInputs] :
        \A k \in 1..(2 * Len(opt)) :
            IF k % 2 = 1 THEN x[k] \in Log10CInputs ELSE x[k] \in MInputs}

Applied(fn, args, out) == [fn |-> fn, args |-> args, out |-> out]

\* What a call of a helper on its own leaves alone
programVars == <<runnerVars, runDirs, dirCount, obj, scalarVars, inflight, blocked>>

ApplyXToCoeffs ==
    /\ applied = NoApplied
    /\ \E fixed \in FixedConfigs :
          \E x \in VectorInputs(active_pair_indices(fixed)) :
              applied' = Applied("x_to_coeffs",
                                 [x |-> x, opt_pairs |-> active_pair_indices(fixed),
                                  FIXED_PAIRS |-> fixed],
                                 x_to_coeffs(x, active_pair_indices(fixed), fixed))
    /\ UNCHANGED programVars

SpecXToCoeffs == Init /\ [][ApplyXToCoeffs]_vars

\* Lines of a solver output: step headers (one without a number, as a
\* truncated file has), another header, rows of ids 1 and 2 (two values of id
\* 1 cancel), a text line with a single number
LineInputs ==
    {Line("Step", <<1>>), Line("Step", <<2>>), Line("Step", <<>>), Line("other", <<1>>),
     Line("none", <<1, 3>>), Line("none", <<1, -3>>), Line("none", <<2, 5>>),
     Line("none", <<7>>)}

RECURSIVE SeqsUpTo(_, _)
SeqsUpTo(S, n) ==
    IF n = 0 THEN {<<>>}
    ELSE LET shorter == SeqsUpTo(S, n - 1)
         IN  shorter \cup {Append(q, e) : q \in {r \in shorter : Len(r) = n - 1}, e \in S}

KeepInputs == {KeepAll, KeepIds({1}), KeepIds({5})}

ApplyParse ==
    /\ applied = NoApplied
    /\ \E lines \in SeqsUpTo(LineInputs, MaxLines), keep \in KeepInputs,
          agg \in {"sum", "mean", "median"} :
           applied' = Applied("parse_febio_log_by_step",
                              [lines |-> lines, ids_keep |-> keep, agg |-> agg],
                              parse_febio_log_by_step(lines, keep, agg))
    /\ UNCHANGED programVars

SpecParse == Init /\ [][ApplyParse]_vars

ValueInputs == 1..MaxValue

ApplyResample ==
    /\ applied = NoApplied
    /\ \E y \in SeqsUpTo(ValueInputs, MaxPoints), n \in 0..MaxTarget :
           applied' = Applied("resample_to_n_points", [y |-> y, n |-> n],
                              resample_to_n_points(y, n))
    /\ UNCHANGED programVars

SpecResample == Init /\ [][ApplyResample]_vars

\* Frames parse_febio_log_by_step can return under agg="sum": steps in
\* increasing order out of -1..MaxSimStep, one value each
SimInputs ==
    UNION {{[k \in 1..Len(Sorted(S)) |-> [Step |-> Sorted(S)[k], Value |-> Frac(v[k], 1)]] :
               v \in [1..Cardinality(S) -> {0, 4}]} :
           S \in (SUBSET (-1..MaxSimStep)) \ {{}}}

\* The Value column of the experiment file
ExpInputs == {<<1, 2, 3, 4, 5>>, <<1, 5, 2>>, <<2, 5>>, <<3>>}

ApplyScoring ==
    /\ applied = NoApplied
    /\ \E sim \in SimInputs, exp_y \in ExpInputs :
           applied' = Applied("scoring", [sim |-> sim, exp_y |-> exp_y], Scoring(sim, exp_y))
    /\ UNCHANGED programVars

SpecScoring == Init /\ [][ApplyScoring]_vars

-----------------------------------------------------------------------------
(* Claims *)

Range(seq) == {seq[k] : k \in 1..Len(seq)}

ScoredEvals == {i \in 1..Len(evals) : evals[i].kind = "return"}

\* C1: within one run objective_coeffs is invoked at most once per CacheKey:
\* no two of the run's evaluations were handed coefficients with the same
\* key, each evaluated key stays cached with the score of its evaluation, and
\* a call answered from the cache returns that cached score.
C1_OncePerKey ==
    /\ \A i, j \in 1..Len(evals) :
          i # j => coeffs_to_key(evals[i].coeffs) # coeffs_to_key(evals[j].coeffs)
    /\ \A i \in ScoredEvals :
          /\ coeffs_to_key(evals[i].coeffs) \in DOMAIN cache
          /\ cache[coeffs_to_key(evals[i].coeffs)] = evals[i].value
    /\ last.src = "cache" =>
          /\ last.kind = "return"
          /\ last.key \in DOMAIN cache
          /\ last.value = cache[last.key]

\* A second vector, different from the evaluated one but rounding to its
\* key, was answered from the cache.
C1_Witness ==
    /\ last.src = "cache"
    /\ \E i \in ScoredEvals :
          /\ evals[i].key = last.key
          /\ evals[i].coeffs # last.coeffs
          /\ evals[i].value = last.value

\* C2: every call of Runner.__call__ returns a finite number or signals
\* StopIteration; no other error reaches the search driver.
C2_FiniteOrStop ==
    /\ last.kind \in {"none", "return", "stop"}
    /\ last.kind = "return" => last.value <= PENALTY
    /\ pc # "crashed" \/ Len(opt_pairs) = 0

\* Rows of the log the run loaded whose coefficients map to key
RowsAtStart(key) ==
    {r \in 1..rows0 :
        /\ RowReadable(RUN_LOG.header, RUN_LOG.rows[r])
        /\ coeffs_to_key(RowCoeffs(RUN_LOG.header, RUN_LOG.rows[r])) = key}

HeaderFits == \A col \in needed_cols : HasCol(RUN_LOG.header, col)

\* C3: when the log loaded at the start of the run has a row for key K, the
\* first call of the run whose vector maps to K returns the score of such a
\* row without invoking objective_coeffs, without incrementing eval_count and
\* without appending a row, and leaves K cached with that score.
C3_LogReuse ==
    [][(/\ pc = "running"
        /\ last' # last
        /\ HeaderFits
        /\ RowsAtStart(last'.key) # {}
        /\ last'.key \notin DOMAIN cache)
       => (/\ last'.kind = "return"
           /\ \E r \in RowsAtStart(last'.key) :
                 Field(RUN_LOG.header, RUN_LOG.rows[r], Col("error_percent", 0)) = last'.value
           /\ evals' = evals
           /\ dirCount' = dirCount
           /\ eval_count' = eval_count
           /\ RUN_LOG' = RUN_LOG
           /\ last'.key \in DOMAIN cache'
           /\ cache'[last'.key] = last'.value)]_vars

\* In a second run a call was answered from a row the first run wrote.
C3_Witness ==
    /\ session = 2
    /\ last.src = "log"
    /\ RowsAtStart(last.key) # {}
    /\ eval_count = 0
    /\ Len(RUN_LOG.rows) = rows0
    /\ cache[last.key] = last.value

\* C4: whenever control is outside Runner.__call__, the rows appended to the
\* log in this run are as many as eval_count.
C4_RowPerEvaluation == Len(RUN_LOG.rows) - rows0 = eval_count

\* C5: after a real evaluation that produced a score, the Runner signals stop
\* exactly when the score is <= TARGET_ERR or eval_count has reached
\* MAX_EVALS, and otherwise returns that score; a call answered from the
\* cache or from the log never signals stop.
C5_StopPolicy ==
    /\ (last.src = "eval" /\ last.kind # "raise") =>
          /\ last.kind \in {"stop", "return"}
          /\ last.kind = "stop" <=> (last.value <= TARGET_ERR \/ eval_count >= MAX_EVALS)
          /\ last.value = obj.res.value
    /\ last.src \in {"cache", "log"} => last.kind = "return"

\* The cap, not the target, stopped the run.
C5_Witness ==
    /\ last.src = "eval"
    /\ last.kind = "stop"
    /\ last.value > TARGET_ERR
    /\ eval_count = MAX_EVALS

MinScore == CHOOSE v \in {evals[i].value : i \in ScoredEvals} :
                \A i \in ScoredEvals : v <= evals[i].value

TargetNeverReached ==
    \A i \in 1..Len(evals) : evals[i].kind = "return" /\ evals[i].value > TARGET_ERR

\* C6: eval_count never exceeds MAX_EVALS; while the search goes on it is
\* below MAX_EVALS; a run stopped without any score reaching the target
\* stopped on its MAX_EVALS-th evaluation, and the best score main then
\* reports is the least score of those evaluations (50 when all scored 50).
C6_CapExact ==
    /\ eval_count <= MAX_EVALS
    /\ pc \in {"running", "finished"} => eval_count < MAX_EVALS
    /\ (pc = "stopped" /\ TargetNeverReached) =>
          /\ eval_count = MAX_EVALS
          /\ Len(evals) = MAX_EVALS
          /\ MainReport.found
          /\ MainReport.error = MinScore
          /\ (\A i \in 1..Len(evals) : evals[i].value = 50) => MainReport.error = 50

C6_Witness ==
    /\ pc = "stopped"
    /\ eval_count = MAX_EVALS
    /\ \A i \in 1..Len(evals) : evals[i].kind = "return" /\ evals[i].value = 50
    /\ best_err = 50

SolverFailure(env) ==
    /\ env.inject = "ok"
    /\ env.redirect = "ok"
    /\ \/ env.invoke \in {"TimeoutExpired", "OSError"}
       \/ env.returncode # 0
       \/ ~env.artifact

\* C8: on a Timeout, another error of the launch, a non-zero exit status or
\* a missing output artifact, objective_coeffs returns exactly the penalty
\* and runs neither extraction nor scoring.
C8_SolverFailurePenalty ==
    (obj.fn = "objective_coeffs" /\ SolverFailure(obj.env)) =>
        /\ obj.res.kind = "return"
        /\ obj.res.value = PENALTY
        /\ Range(obj.res.stages) \cap {"extract", "resample", "score"} = {}

\* Exit status zero, artifact missing.
C8_Witness ==
    /\ obj.fn = "objective_coeffs"
    /\ obj.env.invoke = "exit"
    /\ obj.env.returncode = 0
    /\ ~obj.env.artifact
    /\ obj.res.value = PENALTY

\* C9: best_err is the least score of the run's real evaluations so far and
\* best_coeffs the full coefficient dict of one of them with that score;
\* before any score they are inf and None.
C9_BestSoFar ==
    IF ScoredEvals = {}
    THEN best_err = Inf /\ best_coeffs = None
    ELSE /\ \A i \in ScoredEvals : best_err <= evals[i].value
         /\ \E i \in ScoredEvals :
               evals[i].value = best_err /\ best_coeffs = Some(evals[i].coeffs)

\* The evaluation that stopped the run is the best one, and the vector kept
\* holds a fixed pair too.
C9_Witness ==
    /\ pc = "stopped"
    /\ Len(evals) = 2
    /\ evals[2].value < evals[1].value
    /\ best_err = evals[2].value
    /\ Name("c", 3) \in DOMAIN best_coeffs.v

Granule == Unit \div (10 ^ ROUND_DIGITS)

\* Two coefficient dicts differ by more than the rounding precision in a
\* coefficient both hold (a magnitude coefficient compared as log10).
DiffersBeyondPrecision(a, b) ==
    \E n \in DOMAIN a \cap DOMAIN b :
        IF n[1] = "c"
        THEN Abs(Log10OrSentinel(a[n]) - Log10OrSentinel(b[n])) > Granule
        ELSE Abs(a[n] - b[n]) > Granule

\* C10: a score answered from the cache or from the log is the score of an
\* evaluation of the same full vector: the vector evaluated for that key does
\* not differ from the call's vector by more than the rounding precision in
\* any coefficient, fixed pairs included.
C10_ReuseSameVector ==
    last.src \in {"cache", "log"} =>
        /\ last.key \in DOMAIN origin
        /\ ~DiffersBeyondPrecision(origin[last.key], last.coeffs)

\* Keys evaluated by the current run
EvaluatedKeys == {evals[i].key : i \in ScoredEvals}

\* C11: when the header of the existing log file is not the header for the
\* configured N_ACTIVE_PAIRS, the history loaded from it is empty: the Runner
\* knows no key but those it evaluated itself, and no call is answered from
\* the log.
C11_MismatchIsEmpty ==
    (pc = "running" /\ RUN_LOG.header # RunLogHeader) =>
        /\ DOMAIN logged \subseteq EvaluatedKeys
        /\ last.src # "log"

\* The run's evaluations that produced a score, in the order they were made
ScoredSeq == SelectSeq(evals, LAMBDA e : e.kind = "return")

\* C12: the persisted log is only ever extended: every step of a run leaves
\* the header and every existing row where they were, and the rows added by
\* the current run are the rows of its scored evaluations, in the order the
\* evaluations were made.
C12_AppendOnly ==
    /\ [](/\ Len(RUN_LOG.rows) = rows0 + Len(ScoredSeq)
          /\ \A k \in 1..Len(ScoredSeq) :
                RUN_LOG.rows[rows0 + k] = LogRow(ScoredSeq[k].coeffs, ScoredSeq[k].value))
    /\ [][RUN_LOG.exists =>
            /\ RUN_LOG'.exists
            /\ RUN_LOG'.header = RUN_LOG.header
            /\ Len(RUN_LOG'.rows) >= Len(RUN_LOG.rows)
            /\ SubSeq(RUN_LOG'.rows, 1, Len(RUN_LOG.rows)) = RUN_LOG.rows]_vars

\* A second run added a row behind the row the first run left.
C12_Witness ==
    /\ session = 2
    /\ rows0 = 1
    /\ Len(RUN_LOG.rows) = 2
    /\ Len(ScoredSeq) = 1
    /\ RUN_LOG.rows[1] # RUN_LOG.rows[2]

\* The bound nearest to v, or v itself between the bounds
Nearest(v, bounds) ==
    IF v < bounds[1] THEN bounds[1] ELSE IF v > bounds[2] THEN bounds[2] ELSE v

\* C13: for every vector x, the dict x_to_coeffs builds holds, for the k-th
\* optimized pair, c = 10^l with l the component x[2k-1] brought to the
\* nearest point of LOG10_C_BOUNDS and m the component x[2k] brought to the
\* nearest point of M_BOUNDS, holds for every fixed pair exactly its
\* configured c and m, and holds nothing else.
C13_ClampedCoeffs ==
    applied.fn = "x_to_coeffs" =>
        LET x == applied.args.x
            opt == applied.args.opt_pairs
            fixed == applied.args.FIXED_PAIRS
            coeffs == applied.out
            pairs == DOMAIN fixed \cup Range(opt)
        IN  /\ DOMAIN coeffs = {Name("c", i) : i \in pairs} \cup {Name("m", i) : i \in pairs}
            /\ \A k \in 1..Len(opt) :
                  /\ coeffs[Name("c", opt[k])].sgn = 1
                  /\ coeffs[Name("c", opt[k])].lg >= LOG10_C_BOUNDS[1]
                  /\ coeffs[Name("c", opt[k])].lg <= LOG10_C_BOUNDS[2]
                  /\ coeffs[Name("c", opt[k])].lg = Nearest(x[2 * k - 1], LOG10_C_BOUNDS)
                  /\ coeffs[Name("m", opt[k])] >= M_BOUNDS[1]
                  /\ coeffs[Name("m", opt[k])] <= M_BOUNDS[2]
                  /\ coeffs[Name("m", opt[k])] = Nearest(x[2 * k], M_BOUNDS)
            /\ \A i \in DOMAIN fixed :
                  /\ coeffs[Name("c", i)] = fixed[i].c
                  /\ coeffs[Name("m", i)] = fixed[i].m

\* Pair 1 is fixed and the vector of pair 2 lies far above both bounds.
C13_Witness ==
    /\ applied.fn = "x_to_coeffs"
    /\ DOMAIN applied.args.FIXED_PAIRS = {1}
    /\ applied.args.x = <<Far, Far>>
    /\ applied.out[Name("c", 2)] = Pow10(LOG10_C_BOUNDS[2])
    /\ applied.out[Name("m", 2)] = M_BOUNDS[2]
    /\ applied.out[Name("c", 1)] = applied.args.FIXED_PAIRS[1].c

Parsed == applied.fn = "parse_febio_log_by_step"

\* The step a line stands under: the number of the nearest step header above
\* it that holds a number
StepOf(lines, j) ==
    LET above == {i \in 1..(j - 1) : lines[i].star = "Step" /\ lines[i].nums # <<>>}
        nearest == CHOOSE i \in above : \A h \in above : h <= i
    IN  IF above = {} THEN NoStep
        ELSE [isNone |-> FALSE, v |-> lines[nearest].nums[Len(lines[nearest].nums)]]

\* The rows under step st whose id is in the keep-set
Contributing(lines, keep, st) ==
    {j \in 1..Len(lines) :
        /\ lines[j].star = "none"
        /\ Len(lines[j].nums) >= 2
        /\ StepOf(lines, j) = [isNone |-> FALSE, v |-> st]
        /\ (keep.isNone \/ lines[j].nums[1] \in keep.ids)}

RECURSIVE SumOfRows(_, _)
SumOfRows(lines, J) ==
    IF J = {} THEN 0
    ELSE LET j == CHOOSE i \in J : TRUE
         IN  lines[j].nums[2] + SumOfRows(lines, J \ {j})

StepsNamed(lines) ==
    {lines[i].nums[Len(lines[i].nums)] :
        i \in {h \in 1..Len(lines) : lines[h].star = "Step" /\ lines[h].nums # <<>>}}

\* C14: the series parse_febio_log_by_step returns has strictly increasing
\* step indices, and its value at each step is the sum (agg = "sum") or the
\* mean (agg = "mean") of the values of exactly the rows that stand under a
\* header of that step and whose id is in the keep-set; a row above the first
\* step header stands under no step.
C14_SeriesByStep ==
    (Parsed /\ applied.out.kind = "return") =>
        LET lines == applied.args.lines
            keep == applied.args.ids_keep
            df == applied.out.df
        IN  /\ applied.args.agg \in {"sum", "mean"}
            /\ \A k \in 1..(Len(df) - 1) : df[k].Step < df[k + 1].Step
            /\ \A k \in 1..Len(df) :
                  LET J == Contributing(lines, keep, df[k].Step)
                  IN  /\ J # {}
                      /\ df[k].Value.num = SumOfRows(lines, J)
                      /\ df[k].Value.den =
                            IF applied.args.agg = "sum" THEN 1 ELSE Cardinality(J)

\* Step 2 stands above step 1 in the file and both come out, in order; the
\* keep-set has left out no row.
C14_Witness ==
    /\ Parsed
    /\ applied.args.lines =
          <<Line("Step", <<2>>), Line("none", <<1, 3>>), Line("Step", <<1>>),
            Line("none", <<1, -3>>)>>
    /\ applied.args.ids_keep = KeepIds({1})
    /\ applied.out.df = <<[Step |-> 1, Value |-> Frac(-3, 1)], [Step |-> 2, Value |-> Frac(3, 1)]>>

\* C15: the steps of the returned series are exactly the steps with a
\* contributing row (a step without one is absent, a step whose rows cancel
\* is present with value zero), and when no step has a contributing row the
\* call raises the ValueError instead of returning an empty series.
C15_EmptyStepsDropped ==
    Parsed =>
        LET lines == applied.args.lines
            keep == applied.args.ids_keep
            df == applied.out.df
            live == {st \in StepsNamed(lines) : Contributing(lines, keep, st) # {}}
        IN  /\ applied.out.kind = "return" =>
                  /\ df # <<>>
                  /\ {df[k].Step : k \in 1..Len(df)} = live
                  /\ \A k \in 1..Len(df) : df[k].Value.den # 0
            /\ live = {} =>
                  /\ applied.out.kind = "raise"
                  /\ applied.out.exc = "ValueError"

\* Step 1 holds only a row of an id outside the keep-set and is absent, step
\* 2 holds a kept row.
C15_Witness ==
    /\ Parsed
    /\ applied.args.lines =
          <<Line("Step", <<1>>), Line("none", <<2, 5>>), Line("Step", <<2>>),
            Line("none", <<1, 3>>)>>
    /\ applied.args.ids_keep = KeepIds({1})
    /\ applied.args.agg = "mean"
    /\ applied.out.df = <<[Step |-> 2, Value |-> Frac(3, 1)]>>

Resampled == applied.fn = "resample_to_n_points"

\* The fraction f equals the integer v
FracIs(f, v) == f.den # 0 /\ f.num = v * f.den

\* C16: for a series of m >= 2 values and n >= 2, resample_to_n_points
\* returns n points with steps 1..n whose k-th value (k = 0..n-1) lies on the
\* straight line between the two input points around progress k/(n-1), the
\* input points standing at progress j/(m-1); the first and last input values
\* come out unchanged and [1,2,3,4,5] with n = 3 gives [1,3,5]; with n < 2 or
\* m < 2 the call raises ValueError.
C16_ResampleLinear ==
    Resampled =>
        LET y == applied.args.y
            n == applied.args.n
            m == Len(y)
            out == applied.out
        IN  IF n < 2 \/ m < 2
            THEN out.kind = "raise" /\ out.exc = "ValueError"
            ELSE /\ out.kind = "return"
                 /\ Len(out.df) = n
                 /\ \A k \in 1..n : out.df[k].Step = k
                 /\ FracIs(out.df[1].Value, y[1])
                 /\ FracIs(out.df[n].Value, y[m])
                 /\ \A k \in 0..(n - 1), j \in 0..(m - 2) :
                       (j * (n - 1) <= k * (m - 1) /\ k * (m - 1) <= (j + 1) * (n - 1)) =>
                           \* (value - y_j) / (y_j+1 - y_j) = (k/(n-1) - j/(m-1)) * (m-1)
                           LET v == out.df[k + 1].Value
                           IN  /\ v.den = n - 1
                               /\ v.num - y[j + 1] * v.den =
                                     (y[j + 2] - y[j + 1]) * (k * (m - 1) - j * (n - 1))
                 /\ (y = <<1, 2, 3, 4, 5>> /\ n = 3) =>
                       /\ FracIs(out.df[1].Value, 1)
                       /\ FracIs(out.df[2].Value, 3)
                       /\ FracIs(out.df[3].Value, 5)

\* The scenario of the specification.
C16_Witness ==
    /\ Resampled
    /\ applied.args.y = <<1, 2, 3, 4, 5>>
    /\ applied.args.n = 3
    /\ applied.out.kind = "return"
    /\ FracIs(applied.out.df[2].Value, 3)

\* C17: at most one solver process runs at any time, and only while main()
\* is inside the Runner call that started it; an evaluation is started only
\* when every earlier evaluation of the run has handed back its result; and
\* no two evaluations of a run use the same run directory.
C17_OneAtATime ==
    /\ Cardinality(inflight) <= 1
    /\ \A p \in inflight :
          /\ pc = "evaluating"
          /\ blocked.ended = "running"
          /\ p.run_dir = blocked.run_dir
          /\ p.run_dir \in runDirs
    /\ eval_count = Len(evals) + (IF pc = "evaluating" THEN 1 ELSE 0)
    /\ \A i, j \in 1..Len(evals) : i # j => evals[i].run_dir # evals[j].run_dir
    /\ pc = "evaluating" => \A i \in 1..Len(evals) : evals[i].run_dir # blocked.run_dir

\* The solver of a second evaluation runs, after the first evaluation has
\* returned its score.
C17_Witness ==
    /\ Len(evals) = 1
    /\ evals[1].kind = "return"
    /\ pc = "evaluating"
    /\ \E p \in inflight : p.elapsed = 1 /\ p.run_dir # evals[1].run_dir

\* C18: every evaluation that is started completes: main() leaves the Runner
\* call and no solver process is left running; a process still running when
\* the time budget is used up is killed, objective_coeffs then returns the
\* penalty, and the Runner returns that score or signals stop: the timeout
\* never leaves the objective function as an exception.
C18_EvaluationCompletes ==
    /\ [](pc # "evaluating" => inflight = {})
    /\ [](\A p \in inflight : p.elapsed <= TimeoutTicks)
    /\ []((obj.fn = "objective_coeffs" /\ obj.env.invoke = "TimeoutExpired") =>
            /\ obj.res.kind = "return"
            /\ obj.res.value = PENALTY
            /\ last.src = "eval" =>
                  /\ last.kind \in {"return", "stop"}
                  /\ last.value = PENALTY
                  /\ pc # "crashed")
    /\ (pc = "evaluating") ~> (pc # "evaluating" /\ inflight = {})

\* A solver that never exits was killed at the end of its budget, and the
\* Runner returned the penalty to the search.
C18_Witness ==
    /\ obj.fn = "objective_coeffs"
    /\ obj.env.invoke = "TimeoutExpired"
    /\ last.src = "eval"
    /\ last.kind = "return"
    /\ last.value = PENALTY
    /\ pc = "running"
    /\ inflight = {}

\* C19: whenever objective_coeffs(coeffs, timeout=t, threads=k) starts the
\* solver, the solver runs under the time budget t and with OMP_NUM_THREADS
\* equal to k.
C19_BudgetsPassed ==
    (obj.fn = "objective_coeffs" /\ "invoke" \in Range(obj.res.stages)) =>
        /\ obj.res.solver.timeout = obj.asked.timeout
        /\ obj.res.solver.OMP_NUM_THREADS = obj.asked.threads

Scored == applied.fn = "scoring" /\ applied.out.kind = "return"

\* C20: when objective_coeffs reaches the error metric, the simulated series
\* it compares is the parsed series without its steps of index <= 0, values
\* untouched; the reference it compares with is the experiment resampled to
\* the length of that series, so both have one length; the metric is
\* normalised by the peak of the reference, its second argument; and the
\* score is 100 times the metric.
C20_EqualLengthScoring ==
    Scored =>
        LET sim == applied.args.sim
            out == applied.out
            later == {k \in 1..Len(sim) : sim[k].Step > 0}
        IN  /\ Len(out.sim_use) = Cardinality(later)
            /\ \A r \in Range(out.sim_use) : r.Step > 0 /\ r \in Range(sim)
            /\ Len(out.exp_use) = Len(out.sim_use)
            /\ out.exp_use = resample_to_n_points(applied.args.exp_y, Cardinality(later)).df
            /\ \A k \in 1..Len(out.exp_use) : Abs(out.exp_use[k].Value.num) <= out.metric.peak
            /\ \E k \in 1..Len(out.exp_use) : Abs(out.exp_use[k].Value.num) = out.metric.peak
            /\ out.metric.sq_num =
                  SumSquares(Values(out.sim_use), Values(out.exp_use), Len(out.sim_use))
            /\ out.err.sq_num = 100 * 100 * out.metric.sq_num
            /\ out.err.sq_den = out.metric.sq_den

\* Steps 0..3 were simulated, step 0 is dropped, and the reference of five
\* points is resampled to the three that remain.
C20_Witness ==
    /\ Scored
    /\ applied.args.exp_y = <<1, 2, 3, 4, 5>>
    /\ {applied.args.sim[k].Step : k \in 1..Len(applied.args.sim)} = 0..3
    /\ Len(applied.out.sim_use) = 3
    /\ Len(applied.out.exp_use) = 3
    /\ applied.out.metric.sq_num > 0

\* The session is over: minimize() returned or StopIteration was caught
SessionOver == pc \in {"stopped", "finished"}

\* Every real evaluation of the session came back with the penalty
AllFailed ==
    /\ evals # <<>>
    /\ \A i \in 1..Len(evals) : evals[i].kind = "return" /\ evals[i].value = PENALTY

\* C21: when every real evaluation of a session returned the penalty, main
\* reports that there were no successful evaluations: best_coeffs is still
\* None at the end of the session and no failed vector is reported as best.
C21_NoSuccessReported ==
    (SessionOver /\ AllFailed) => (best_coeffs = None /\ ~MainReport.found)

\* The solver-side failures of an evaluation whose model file was written:
\* Timeout, non-zero exit status, exit status zero without the artifact
ScalarSolverFailure(env) ==
    /\ env.inject = "ok"
    /\ env.redirect = "ok"
    /\ \/ env.invoke = "TimeoutExpired"
       \/ env.invoke = "exit" /\ env.returncode # 0
       \/ env.invoke = "exit" /\ env.returncode = 0 /\ ~env.artifact

\* C22: on a Timeout, a non-zero exit status or an exit status of zero with
\* the output artifact missing, objective_c1 returns the penalty and has
\* appended a row with it to its log; none of these failures reaches the
\* scalar optimizer as an error.
C22_ScalarFailurePenalty ==
    (obj.fn = "objective_c1" /\ ScalarSolverFailure(obj.env)) =>
        /\ obj.res.kind = "return"
        /\ obj.res.value = PENALTY
        /\ scalar_pc = "running"
        /\ LOG_CSV.rows # <<>>
        /\ LOG_CSV.rows[Len(LOG_CSV.rows)] = <<obj.coeffs[Name("c", 1)], PENALTY>>

\* pd.read_csv(LOG_CSV)[col]: the column of the file under a name; a row
\* with fewer fields than the header holds NaN under the columns it lacks,
\* and a name the header lacks raises KeyError.
ReadColumn(file, col) ==
    IF ~HasCol(file.header, col) THEN [kind |-> "raise", exc |-> "KeyError", values |-> <<>>]
    ELSE LET k == CHOOSE j \in 1..Len(file.header) : file.header[j] = col
         IN  [kind |-> "return", exc |-> "none",
              values |-> [r \in 1..Len(file.rows) |->
                            IF k <= Len(file.rows[r]) THEN file.rows[r][k] ELSE NaN]]

\* Lines 4-9 of postprocess.py: the error column as postprocess asks for it
postprocess(file) == ReadColumn(file, Col("percent_error", 0))

\* C23: every row objective_c1 appended to run_log.csv has one field per
\* column of LOG_HEADER, and the score of the most recent evaluation that
\* returned stands under the error column of the last row, where a reader
\* by column name (postprocess) finds it.
C23_RowsMatchHeader ==
    /\ \A r \in 1..Len(LOG_CSV.rows) : Len(LOG_CSV.rows[r]) = Len(LOG_CSV.header)
    /\ (obj.fn = "objective_c1" /\ obj.res.kind = "return") =>
          LET errors == ReadColumn(LOG_CSV, Col("error_percent", 0))
          IN  /\ errors.kind = "return"
              /\ errors.values[Len(LOG_CSV.rows)] = obj.res.value
              /\ postprocess(LOG_CSV) = errors

\* C24: in a run of optimize.py the call counter of objective_c1 never
\* exceeds MAX_CALLS, so that the "iteration CALL_COUNT/MAX_CALLS" it prints
\* always has CALL_COUNT <= MAX_CALLS.
C24_CallsWithinMax == CALL_COUNT <= MAX_CALLS

\* C25: in every state of a Runner session each key of the in-session cache
\* is in the logged map with the same score; a call that returns leaves its
\* key cached with the score it returned; and within one session no key of
\* the cache or of the logged map is dropped or given another score, so calls
\* that return for one key return one score.
C25_CacheAgreesWithLog ==
    /\ [](\A k \in DOMAIN cache : k \in DOMAIN logged /\ logged[k] = cache[k])
    /\ [](last.kind = "return" => (last.key \in DOMAIN cache /\ cache[last.key] = last.value))
    /\ [][session' = session =>
            /\ \A k \in DOMAIN cache : k \in DOMAIN cache' /\ cache'[k] = cache[k]
            /\ \A k \in DOMAIN logged : k \in DOMAIN logged' /\ logged'[k] = logged[k]]_vars

\* A key the run found in the log was asked for again and answered from the
\* cache, next to a key the run evaluated itself.
C25_Witness ==
    /\ session = 2
    /\ last.src = "cache"
    /\ \A i \in 1..Len(evals) : evals[i].key # last.key
    /\ RowsAtStart(last.key) # {}
    /\ cache[last.key] = logged[last.key]
    /\ \E i \in ScoredEvals : evals[i].key \in DOMAIN cache

\* Keys of the evaluations that returned the penalty, in this run or in an
\* earlier one: the keys of the rows of the log that hold the penalty
PenaltyKeys ==
    {coeffs_to_key(RowCoeffs(RUN_LOG.header, RUN_LOG.rows[r])) :
        r \in {q \in 1..Len(RUN_LOG.rows) :
                  /\ RowReadable(RUN_LOG.header, RUN_LOG.rows[q])
                  /\ Field(RUN_LOG.header, RUN_LOG.rows[q], Col("error_percent", 0)) = PENALTY}}

\* C26: a penalty is persisted and reused like any other score.  Once an
\* evaluation of key K returned the penalty, every run that has loaded the
\* log holds K with the penalty, and every later call for K, in the same run
\* or in a later one, returns the penalty without a solver run, a run
\* directory or a new row.
C26_PenaltyReused ==
    /\ [](pc \in {"running", "stopped", "finished"} =>
             \A K \in PenaltyKeys : K \in DOMAIN logged /\ logged[K] = PENALTY)
    /\ [][(pc = "running" /\ last' # last /\ last'.key \in PenaltyKeys) =>
             /\ last'.kind = "return"
             /\ last'.value = PENALTY
             /\ last'.src \in {"cache", "log"}
             /\ evals' = evals
             /\ eval_count' = eval_count
             /\ dirCount' = dirCount
             /\ RUN_LOG' = RUN_LOG]_vars

\* The first run's evaluation of a key timed out; the second run was asked
\* for that key and answered with the penalty from the log, having evaluated
\* nothing.
C26_Witness ==
    /\ session = 2
    /\ pc = "running"
    /\ last.src = "log"
    /\ last.value = PENALTY
    /\ last.key \in PenaltyKeys
    /\ evals = <<>>
    /\ dirCount = 0

\* C27: a call answered from the cache or from the log returns its score
\* and leaves eval_count, best_err, best_coeffs, the log file and the state
\* of the search as they were, whatever the score; best_err and best_coeffs
\* are those of a real evaluation of the current run, or inf and None when
\* the run has scored none.
C27_ReuseLeavesBest ==
    /\ [][(pc = "running" /\ last' # last /\ last'.src \in {"cache", "log"}) =>
             /\ last'.kind = "return"
             /\ UNCHANGED <<eval_count, best_err, best_coeffs, RUN_LOG, pc>>]_vars
    /\ [](ScoredEvals = {} => (best_err = Inf /\ best_coeffs = None))
    /\ [](best_coeffs # None =>
             \E i \in ScoredEvals :
                 evals[i].value = best_err /\ best_coeffs = Some(evals[i].coeffs))

\* The run evaluated one vector, then was handed a vector whose logged score
\* reaches the target and is below best_err: the search goes on and the best
\* is still the evaluated one.
C27_Witness ==
    /\ pc = "running"
    /\ last.src = "log"
    /\ last.value <= TARGET_ERR
    /\ last.value < best_err
    /\ eval_count = 1
    /\ best_coeffs = Some(evals[1].coeffs)
    /\ Len(RUN_LOG.rows) = rows0 + 1

====
